---- MODULE Spec2Model ----
(***************************************************************************)
(* ProcessRef (src/process/process_ref.rs): module enumeration with the    *)
(* buffer-growth retry protocol, and module lookup by name and by path,    *)
(* run against a target process whose module list changes concurrently.    *)
(*                                                                         *)
(* Sizes are byte counts as in the source.  The 1024-entry stack buffer    *)
(* and the 32-bit length parameter are scaled down (StackLen, DWordBits)   *)
(* so that the growth loop and the failing length conversion are reached   *)
(* with a handful of modules; usize is wider than the length parameter     *)
(* (64-bit build), so the usize arithmetic itself never wraps before the   *)
(* conversion fails.                                                       *)
(***************************************************************************)
EXTENDS Integers, Sequences, FiniteSets, TLC

\* ---------------------------------------------------------------- bounds
\* entries of the stack buffer (UninitArrayBuf::<ModuleHandle, 1024>)
StackLen == 1
\* width in bits of the enumeration call's length parameter (DWORD: 32)
DWordBits == 6
\* module handles the target process can have loaded at once
MaxModules == 5

\* real (kernel-assigned) process handle values the caller's handle table holds
MaxHandles == 2

\* mem::size_of::<HMODULE>() on a 64-bit build
HandleSize == 8

RECURSIVE Pow2(_)
Pow2(n) == IF n = 0 THEN 1 ELSE 2 * Pow2(n - 1)

\* largest value of the call's length parameter and of bytesNeeded (u32::MAX)
DWordMax == Pow2(DWordBits) - 1

Max2(a, b) == IF a >= b THEN a ELSE b
Min2(a, b) == IF a <= b THEN a ELSE b
SetMax(S) == CHOOSE x \in S : \A y \in S : y <= x

\* ------------------------------------------------------- paths and names
\* A string is a sequence of one-character strings.
UpperChars == <<"A", "B", "C", "D", "E", "F", "G", "H", "I", "J", "K", "L", "M",
                "N", "O", "P", "Q", "R", "S", "T", "U", "V", "W", "X", "Y", "Z">>
LowerChars == <<"a", "b", "c", "d", "e", "f", "g", "h", "i", "j", "k", "l", "m",
                "n", "o", "p", "q", "r", "s", "t", "u", "v", "w", "x", "y", "z">>

\* u8::to_ascii_lowercase
ToAsciiLower(c) ==
    IF \E i \in 1..Len(UpperChars) : UpperChars[i] = c
    THEN LowerChars[CHOOSE i \in 1..Len(UpperChars) : UpperChars[i] = c]
    ELSE c

\* OsStr::eq_ignore_ascii_case
EqIgnoreAsciiCase(a, b) ==
    /\ Len(a) = Len(b)
    /\ \A i \in 1..Len(a) : ToAsciiLower(a[i]) = ToAsciiLower(b[i])

Separators == {"\\", "/"}

\* index of the first character of the last path component
FileNameStart(p) ==
    LET seps == {i \in 1..Len(p) : p[i] \in Separators}
    IN  IF seps = {} THEN 1 ELSE SetMax(seps) + 1

\* Path::file_name, <<>> standing for None
FileName(p) ==
    LET n == SubSeq(p, FileNameStart(p), Len(p))
    IN  IF n \in {<<>>, <<".">>, <<".", ".">>} THEN <<>> ELSE n

\* position in the file name of the dot that starts the extension, 0 if none:
\* the last dot, unless it is the first character of the file name
ExtensionDot(p) ==
    LET n == FileName(p)
        dots == {i \in 1..Len(n) : n[i] = "."}
    IN  IF dots = {} \/ SetMax(dots) = 1 THEN 0 ELSE SetMax(dots)

\* Path::extension(...).is_some()
HasExtension(p) == ExtensionDot(p) # 0

\* Path::with_extension
WithExtension(p, ext) ==
    IF FileName(p) = <<>> THEN p
    ELSE LET n == FileName(p)
             stemLen == IF ExtensionDot(p) = 0 THEN Len(n) ELSE ExtensionDot(p) - 1
             base == SubSeq(p, 1, FileNameStart(p) - 1 + stemLen)
         IN  IF ext = <<>> THEN base ELSE base \o <<".">> \o ext

DllExt == <<"d", "l", "l">>

\* "add default file extension if missing", as written
NormalizeTarget(p) ==
    IF HasExtension(p) THEN WithExtension(p, DllExt) ELSE p

\* ------------------------------------------------ the target's modules
\* Module handles are numbered in load order; handle 1 is the main image.
Handles == 1..MaxModules

\* ProcessModule::get_base_name of each module of the target
BaseNameOf(h) ==
    CASE h = 1 -> <<"a", "p", "p", ".", "e", "x", "e">>
      [] h = 2 -> <<"f", "o", "o", ".", "d", "l", "l">>
      [] h = 3 -> <<"f", "o", "o", ".", "d", "l", "l">>
      [] h = 4 -> <<"b", "a", "r">>
      [] h = 5 -> <<"B", "a", "r", ".", "D", "L", "L">>
      [] OTHER -> <<"x", ".", "d", "l", "l">>

\* directory each module was loaded from
DirOf(h) ==
    IF h = 3 THEN <<"d", ":", "\\">> ELSE <<"c", ":", "\\">>

\* ProcessModule::get_path of each module of the target
PathOf(h) == DirOf(h) \o BaseNameOf(h)

\* inputs of find_module_by_name
NameInputs ==
    { <<"f", "o", "o">>,
      <<"F", "O", "O", ".", "D", "L", "L">>,
      <<"d", "o", "e", "s", "n", "o", "t", "e", "x", "i", "s", "t">>,
      <<"a", "p", "p", ".", "e", "x", "e">>,
      <<"b", "a", "r">> }

\* inputs of find_module_by_path
PathInputs ==
    { <<"c", ":", "\\", "f", "o", "o", ".", "d", "l", "l">>,
      <<"C", ":", "\\", "F", "O", "O", ".", "D", "L", "L">>,
      <<"D", ":", "\\", "f", "o", "o", ".", "d", "l", "l">>,
      <<"c", ":", "\\", "A", "P", "P", ".", "e", "x", "e">>,
      <<"c", ":", "\\", "f", "o", "o", ".", "e", "x", "e">>,
      <<"c", ":", "\\", "b", "a", "r">> }

\* ------------------------------------------------------------ the state
VARIABLES
    loaded,                \* module handles loaded in the target, in load order
    op,                    \* operation in progress: "none", "handles", "by_name", "by_path"
    arg,                   \* module_name / module_path as given by the caller
    target,                \* target_module_name / target_module_path after normalisation
    pc,                    \* "idle", "first", "loop", "scan", "done"
    module_buf,            \* the stack buffer
    module_buf_vec,        \* the heap buffer of the growth loop
    module_buf_byte_size,
    bytes_needed,
    modules,               \* the slice get_module_handles returned
    scanIdx,               \* position of the for loop of a lookup in modules
    found,                 \* <<>> for None, <<h>> for Some(module h)
    outcome,               \* "none", "ok", "err", "panic"
    calls,                 \* enumeration calls issued by the operation in progress
    lenParam,              \* length parameter passed to the last enumeration call
    bufBytes,              \* byte size of the buffer supplied to the last enumeration call
    snap,                  \* module list of the target when the last enumeration call ran
    written,               \* slots the last enumeration call wrote
    callFailed,            \* an enumeration call of this operation returned 0
    queryFailed,           \* a name/path query of this lookup failed
    queried,               \* handles whose name/path this lookup has queried, in order
    changed,               \* the target's module list changed since this operation started
    self,                  \* <<r>>: the ProcessRef r the operation in progress was invoked on
    enumProc,              \* process handles passed to the enumeration calls of this operation
    views,                 \* the ProcessModule values this lookup has constructed, in order
    table,                 \* the caller's handle table: real handle value -> [obj, access]
    owned,                 \* handle values owned by the Process values promote_to_owned returned
    procState,             \* per process: "running", "terminating", "exited"
    termCode,              \* per process: <<c>> once TerminateProcess accepted exit code c
    killReq,               \* per process: <<c>> once a kill call asking for exit code c returned Ok
    exitCode,              \* per process: <<c>> once it has exited with code c
    refA,                  \* a ProcessRef the caller holds: <<>> or <<[raw, scope]>>
    refB,                  \* a second one
    last                   \* what the last handle-level operation was given and returned

vars == <<loaded, op, arg, target, pc, module_buf, module_buf_vec,
          module_buf_byte_size, bytes_needed, modules, scanIdx, found, outcome,
          calls, lenParam, bufBytes, snap, written, callFailed, queryFailed,
          queried, changed, self, enumProc, views, table, owned, procState,
          termCode, killReq, exitCode, refA, refB, last>>

envVars == <<loaded>>
inputVars == <<op, arg, target, self>>
bufVars == <<module_buf, module_buf_vec, module_buf_byte_size, bytes_needed>>
scanVars == <<scanIdx, found, queried, queryFailed, views>>
callVars == <<calls, lenParam, bufBytes, snap, written, callFailed, enumProc>>
handleVars == <<table, owned, procState, termCode, killReq, exitCode, refA, refB, last>>
enumVars == <<loaded, op, arg, target, pc, module_buf, module_buf_vec,
              module_buf_byte_size, bytes_needed, modules, scanIdx, found, outcome,
              calls, lenParam, bufBytes, snap, written, callFailed, queryFailed,
              queried, changed, self, enumProc, views>>

\* ------------------------------------------------- handles and references
\* GetCurrentProcess(): the pseudo handle of the calling process
RawCurrentHandle == -1

RealHandles == 1..MaxHandles

\* the process kernel objects
Procs == {"current", "child"}

\* access-rights masks, both holding the rights a ProcessRef requires
AccessMasks == {"required", "all"}

ClosedEntry == [obj |-> "closed", access |-> "none"]

\* ProcessRef(BorrowedHandle<'a>): the raw handle value and the borrow scope
\* ('a) that guarantees it: 'static, the caller of borrow_from_handle, or
\* the Process the reference was taken from
ProcessRefOf(h, scope) == [raw |-> h, scope |-> scope]

\* ProcessRef::current()
CurrentRef == ProcessRefOf(RawCurrentHandle, "static")

\* the handle table before the caller does anything: handle 1 is a handle to
\* a child process that something else owns
InitTable ==
    [h \in RealHandles |->
        IF h = 1 THEN [obj |-> "child", access |-> "required"] ELSE ClosedEntry]

NoOp == [op |-> "none", raw |-> 0, other |-> 0, ok |-> TRUE, flag |-> FALSE,
         val |-> 0, hashA |-> 0, hashB |-> 0, attempts |-> 0]

\* MaybeUninit::uninit(): a slot nothing has written
Uninit == 0

Running == pc # "idle"

Init ==
    /\ loaded = <<1>>
    /\ op = "none"
    /\ arg = <<>>
    /\ target = <<>>
    /\ pc = "idle"
    /\ module_buf = <<>>
    /\ module_buf_vec = <<>>
    /\ module_buf_byte_size = 0
    /\ bytes_needed = 0
    /\ modules = <<>>
    /\ scanIdx = 1
    /\ found = <<>>
    /\ outcome = "none"
    /\ calls = 0
    /\ lenParam = 0
    /\ bufBytes = 0
    /\ snap = <<>>
    /\ written = 0
    /\ callFailed = FALSE
    /\ queryFailed = FALSE
    /\ queried = <<>>
    /\ changed = FALSE
    /\ self = <<>>
    /\ enumProc = {}
    /\ views = <<>>
    /\ table = InitTable
    /\ owned = {}
    /\ procState = [p \in Procs |-> "running"]
    /\ termCode = [p \in Procs |-> <<>>]
    /\ killReq = [p \in Procs |-> <<>>]
    /\ exitCode = [p \in Procs |-> <<>>]
    /\ refA = <<CurrentRef>>
    /\ refB = <<ProcessRefOf(1, "caller")>>
    /\ last = NoOp

\* ------------------------------------------------- the target process
\* The module list is read by the enumeration calls only (the scan of a
\* lookup queries modules by handle, and such a query may fail at any time),
\* so its changes are taken between operations and between the calls of an
\* enumeration.
ListObserved == pc \in {"idle", "first", "loop"}

\* The target loads a module: it is appended to the load-order list.  The
\* byte count of the whole list always fits the call's bytesNeeded output.
LoadModule ==
    /\ ListObserved
    /\ Len(loaded) < MaxModules
    /\ (Len(loaded) + 1) * HandleSize <= DWordMax
    /\ \E h \in Handles :
        /\ h > loaded[Len(loaded)]
        /\ loaded' = Append(loaded, h)
    /\ changed' = (changed \/ Running)
    /\ UNCHANGED <<inputVars, pc, bufVars, modules, scanVars, outcome, callVars,
                   handleVars>>

\* The target unloads any module but its main image.
UnloadModule ==
    /\ ListObserved
    /\ \E i \in 2..Len(loaded) :
        loaded' = SubSeq(loaded, 1, i - 1) \o SubSeq(loaded, i + 1, Len(loaded))
    /\ changed' = (changed \/ Running)
    /\ UNCHANGED <<inputVars, pc, bufVars, modules, scanVars, outcome, callVars,
                   handleVars>>

\* ------------------------------------------------- get_module_handles
\* a truncating cast (as u32) in place of the checked conversion
WrappingAsU32(x) == [ok |-> TRUE, val |-> x % (DWordMax + 1)]

\* usize -> u32 of the length parameter: try_into().unwrap() panics when the
\* value does not fit
TryIntoU32(x) == [ok |-> x <= DWordMax, val |-> x]

\* entries EnumProcessModulesEx writes into a buffer of cb bytes
EnumWritten(cb, mods) == Min2(Len(mods), cb \div HandleSize)

\* EnumProcessModulesEx on success: the buffer after the call
EnumFill(buf, cb, mods) ==
    [i \in 1..Len(buf) |-> IF i <= EnumWritten(cb, mods) THEN mods[i] ELSE buf[i]]

\* ... and the bytesNeeded it reports: the size of the whole list at that moment
EnumBytesNeeded(mods) == Len(mods) * HandleSize

\* the slice covering the whole buffer instead of the reported count
WholeBufferLen(needed, byteSize) == byteSize \div HandleSize

\* module_buf_len of the returned slice
ModuleBufLen(needed, byteSize) == needed \div HandleSize

\* the range 1..len in place of 0..len
SliceFromSecond(buf, len) == SubSeq(buf, 2, len)

\* ArrayOrVecSlice::from_array / from_vec (buf, 0..len)
SliceOf(buf, len) == SubSeq(buf, 1, len)

\* growth by doubling only, whatever size was reported
GrowByDoublingOnly(needed, byteSize) == byteSize * 2

\* growth to the reported size only, without the doubling
GrowToNeededOnly(needed, byteSize) == needed

\* cmp::max(bytes_needed, module_buf_byte_size * 2)
GrowByteSize(needed, byteSize) == Max2(needed, byteSize * 2)

\* Vec::resize_with(len, MaybeUninit::uninit)
ResizeWith(vec, len) ==
    IF len <= Len(vec) THEN SubSeq(vec, 1, len)
    ELSE vec \o [i \in 1..(len - Len(vec)) |-> Uninit]

\* a test that asks for one spare entry beyond the reported size
BufferHasSpareEntry(needed, byteSize) == needed + HandleSize <= byteSize

\* a strict comparison in place of <=
BufferSufficientStrict(needed, byteSize) == needed < byteSize

\* whether bytes_needed fits the buffer just tried
BufferSufficient(needed, byteSize) == needed <= byteSize

\* the references the caller holds and can invoke an operation on
HeldRefs == {refA[i] : i \in 1..Len(refA)} \cup {refB[i] : i \in 1..Len(refB)}

\* self.handle(): the process handle passed to the OS
HandleArg(r) == r.raw

\* entry of get_module_handles: the uninitialised stack buffer and its byte size
EnterGetModuleHandles ==
    /\ pc' = "first"
    /\ module_buf' = [i \in 1..StackLen |-> Uninit]
    /\ module_buf_byte_size' = HandleSize * StackLen
    /\ module_buf_vec' = <<>>
    /\ bytes_needed' = 0
    /\ modules' = <<>>
    /\ outcome' = "none"
    /\ scanIdx' = 1
    /\ found' = <<>>
    /\ queried' = <<>>
    /\ queryFailed' = FALSE
    /\ calls' = 0
    /\ lenParam' = 0
    /\ bufBytes' = 0
    /\ snap' = <<>>
    /\ written' = 0
    /\ callFailed' = FALSE
    /\ changed' = FALSE
    /\ \E r \in HeldRefs : self' = <<r>>
    /\ enumProc' = {}
    /\ views' = <<>>

\* a caller invokes get_module_handles
GetModuleHandles ==
    /\ pc = "idle"
    /\ op' = "handles"
    /\ arg' = <<>>
    /\ target' = <<>>
    /\ EnterGetModuleHandles
    /\ UNCHANGED <<envVars, handleVars>>

\* try_into().unwrap() failed: the operation aborts, no call is issued
Panics ==
    /\ pc' = "done"
    /\ outcome' = "panic"
    /\ UNCHANGED <<modules, scanVars, callVars>>

\* a failed call treated as one more reason to retry
CallFailsAndRetries(cb, bytes) ==
    /\ pc' = "loop"
    /\ outcome' = outcome
    /\ calls' = calls + 1
    /\ lenParam' = cb
    /\ bufBytes' = bytes
    /\ callFailed' = TRUE
    /\ enumProc' = enumProc \cup {HandleArg(self[1])}
    /\ UNCHANGED <<modules, scanVars, snap, written>>

\* the call returned 0: Err(Win32Error::new())
CallFails(cb, bytes) ==
    /\ pc' = "done"
    /\ outcome' = "err"
    /\ calls' = calls + 1
    /\ lenParam' = cb
    /\ bufBytes' = bytes
    /\ callFailed' = TRUE
    /\ enumProc' = enumProc \cup {HandleArg(self[1])}
    /\ UNCHANGED <<modules, scanVars, snap, written>>

\* bookkeeping of a call that returned non-zero
CallSucceeds(cb, bytes) ==
    /\ calls' = calls + 1
    /\ lenParam' = cb
    /\ bufBytes' = bytes
    /\ snap' = loaded
    /\ written' = EnumWritten(cb, loaded)
    /\ enumProc' = enumProc \cup {HandleArg(self[1])}
    /\ UNCHANGED callFailed

\* get_module_handles returns Ok(slice); a lookup goes on to scan the slice
ReturnsSlice(slice) ==
    /\ modules' = slice
    /\ IF op = "handles"
       THEN pc' = "done" /\ outcome' = "ok"
       ELSE pc' = "scan" /\ outcome' = outcome
    /\ UNCHANGED scanVars

\* the first enumeration call, on the stack buffer, and the fast path
FirstCall ==
    /\ pc = "first"
    /\ LET cb == TryIntoU32(module_buf_byte_size)
           bytes == Len(module_buf) * HandleSize
       IN  IF ~cb.ok
           THEN Panics /\ UNCHANGED bufVars
           ELSE \E result \in {0, 1} :
                IF result = 0
                THEN CallFails(cb.val, bytes) /\ UNCHANGED bufVars
                ELSE LET buf == EnumFill(module_buf, cb.val, loaded)
                         needed == EnumBytesNeeded(loaded)
                     IN  /\ CallSucceeds(cb.val, bytes)
                         /\ module_buf' = buf
                         /\ bytes_needed' = needed
                         /\ UNCHANGED <<module_buf_vec, module_buf_byte_size>>
                         /\ IF BufferSufficient(needed, module_buf_byte_size)
                            THEN ReturnsSlice(SliceOf(buf,
                                     ModuleBufLen(needed, module_buf_byte_size)))
                            ELSE /\ pc' = "loop"
                                 /\ UNCHANGED <<modules, scanVars, outcome>>
    /\ UNCHANGED <<envVars, inputVars, changed, handleVars>>

\* one iteration of the growth loop: grow, resize, call again, test
RetryCall ==
    /\ pc = "loop"
    /\ LET size == GrowByteSize(bytes_needed, module_buf_byte_size)
           vec == ResizeWith(module_buf_vec, size \div HandleSize)
           cb == TryIntoU32(size)
           bytes == Len(vec) * HandleSize
       IN  /\ module_buf_byte_size' = size
           /\ UNCHANGED module_buf
           /\ IF ~cb.ok
              THEN Panics /\ module_buf_vec' = vec /\ UNCHANGED bytes_needed
              ELSE \E result \in {0, 1} :
                   IF result = 0
                   THEN /\ CallFails(cb.val, bytes)
                        /\ module_buf_vec' = vec
                        /\ UNCHANGED bytes_needed
                   ELSE LET buf == EnumFill(vec, cb.val, loaded)
                            needed == EnumBytesNeeded(loaded)
                        IN  /\ CallSucceeds(cb.val, bytes)
                            /\ module_buf_vec' = buf
                            /\ bytes_needed' = needed
                            /\ IF BufferSufficient(needed, size)
                               THEN ReturnsSlice(SliceOf(buf, ModuleBufLen(needed, size)))
                               ELSE /\ pc' = "loop"
                                    /\ UNCHANGED <<modules, scanVars, outcome>>
    /\ UNCHANGED <<envVars, inputVars, changed, handleVars>>

\* ---------------------------------- find_module_by_name / find_module_by_path
FindModuleByName ==
    /\ pc = "idle"
    /\ \E name \in NameInputs :
        /\ op' = "by_name"
        /\ arg' = name
        /\ target' = NormalizeTarget(name)
    /\ EnterGetModuleHandles
    /\ UNCHANGED <<envVars, handleVars>>

FindModuleByPath ==
    /\ pc = "idle"
    /\ \E path \in PathInputs :
        /\ op' = "by_path"
        /\ arg' = path
        /\ target' = NormalizeTarget(path)
    /\ EnterGetModuleHandles
    /\ UNCHANGED <<envVars, handleVars>>

\* what the lookup queries of a module: its base name or its full path
QueryOf(h) == IF op = "by_name" THEN BaseNameOf(h) ELSE PathOf(h)

\* the comparison of the scan
Matches(queriedName, wanted) == EqIgnoreAsciiCase(queriedName, wanted)

\* the slice scanned from its end
ScanItemReversed(ms, i) == ms[Len(ms) + 1 - i]

\* the element the for loop visits at its i-th iteration
ScanItem(ms, i) == ms[i]

\* a failed query skipped, the scan going on with the next module
QueryFailsAndSkips ==
    /\ scanIdx' = scanIdx + 1
    /\ queryFailed' = TRUE
    /\ UNCHANGED <<pc, outcome, found>>

\* module.get_base_name()? / module.get_path()? failed: the lookup returns Err
QueryFails ==
    /\ pc' = "done"
    /\ outcome' = "err"
    /\ queryFailed' = TRUE
    /\ UNCHANGED <<scanIdx, found>>

\* the module handle paired with the current process instead of *self
NewProcessModuleOfCurrent(h, r) == [handle |-> h, process |-> CurrentRef]

\* ProcessModule::new(module_handle, *self)
NewProcessModule(h, r) == [handle |-> h, process |-> r]

\* one iteration of the for loop over the slice (or its end: Ok(None))
ScanStep ==
    /\ pc = "scan"
    /\ IF scanIdx > Len(modules)
       THEN /\ pc' = "done"
            /\ outcome' = "ok"
            /\ found' = <<>>
            /\ UNCHANGED <<scanIdx, queried, queryFailed, views>>
       ELSE LET h == ScanItem(modules, scanIdx) IN
            /\ views' = Append(views, NewProcessModule(h, self[1]))
            /\ queried' = Append(queried, h)
            /\ \E ok \in BOOLEAN :
                IF ~ok
                THEN QueryFails
                ELSE IF Matches(QueryOf(h), target)
                     THEN /\ pc' = "done"
                          /\ outcome' = "ok"
                          /\ found' = <<h>>
                          /\ UNCHANGED <<scanIdx, queryFailed>>
                     ELSE /\ scanIdx' = scanIdx + 1
                          /\ UNCHANGED <<pc, outcome, found, queryFailed>>
    /\ UNCHANGED <<envVars, inputVars, bufVars, modules, callVars, changed, handleVars>>

\* the caller is done with the result; the buffers of the call are released
Finish ==
    /\ pc = "done"
    /\ pc' = "idle"
    /\ op' = "none"
    /\ arg' = <<>>
    /\ target' = <<>>
    /\ module_buf' = <<>>
    /\ module_buf_vec' = <<>>
    /\ module_buf_byte_size' = 0
    /\ bytes_needed' = 0
    /\ modules' = <<>>
    /\ scanIdx' = 1
    /\ found' = <<>>
    /\ outcome' = "none"
    /\ queried' = <<>>
    /\ queryFailed' = FALSE
    /\ calls' = 0
    /\ lenParam' = 0
    /\ bufBytes' = 0
    /\ snap' = <<>>
    /\ written' = 0
    /\ callFailed' = FALSE
    /\ changed' = FALSE
    /\ self' = <<>>
    /\ enumProc' = {}
    /\ views' = <<>>
    /\ UNCHANGED <<envVars, handleVars>>

Next ==
    \/ LoadModule
    \/ UnloadModule
    \/ GetModuleHandles
    \/ FirstCall
    \/ RetryCall
    \/ FindModuleByName
    \/ FindModuleByPath
    \/ ScanStep
    \/ Finish

Spec == Init /\ [][Next]_vars

\* The calls are synchronous: a started operation keeps taking its steps.
FairSpec ==
    /\ Spec
    /\ WF_vars(FirstCall)
    /\ WF_vars(RetryCall)
    /\ WF_vars(ScanStep)

\* ------------------------------------- handle-level operations of ProcessRef
\* the caller's two reference slots
Slots == {"A", "B"}
SlotVal(slot) == IF slot = "A" THEN refA ELSE refB
SetSlot(slot, v) ==
    IF slot = "A" THEN refA' = v /\ UNCHANGED refB
                  ELSE refB' = v /\ UNCHANGED refA

\* the calling process is still there to act
Alive == procState["current"] # "exited"

\* what a handle value denotes in the caller's handle table
ObjOf(h) == IF h = RawCurrentHandle THEN "current" ELSE table[h].obj
AccessOf(h) == IF h = RawCurrentHandle THEN "all" ELSE table[h].access
IsOpen(h) == ObjOf(h) # "closed"

\* ProcessRef::borrow_from_handle, on any handle that is open
BorrowFromHandle ==
    /\ Alive
    /\ \E slot \in Slots, h \in RealHandles \cup {RawCurrentHandle} :
        /\ IsOpen(h)
        /\ SetSlot(slot, <<ProcessRefOf(h, "caller")>>)
        /\ last' = [NoOp EXCEPT !.op = "borrow", !.raw = h]
    /\ UNCHANGED <<enumVars, table, owned, procState, termCode, killReq, exitCode>>

\* From<&Process>: Process::get_ref of a Process promote_to_owned returned
RefOfProcess ==
    /\ Alive
    /\ \E slot \in Slots, h \in owned :
        /\ SetSlot(slot, <<ProcessRefOf(h, "process")>>)
        /\ last' = [NoOp EXCEPT !.op = "get_ref", !.raw = h]
    /\ UNCHANGED <<enumVars, table, owned, procState, termCode, killReq, exitCode>>

\* ProcessRef::current
Current ==
    /\ Alive
    /\ \E slot \in Slots :
        /\ SetSlot(slot, <<CurrentRef>>)
        /\ last' = [NoOp EXCEPT !.op = "current", !.raw = CurrentRef.raw]
    /\ UNCHANGED <<enumVars, table, owned, procState, termCode, killReq, exitCode>>

\* #[derive(Clone, Copy)]
CopyRef ==
    /\ Alive
    /\ refA # <<>>
    /\ refB' = refA
    /\ last' = [NoOp EXCEPT !.op = "copy", !.raw = refA[1].raw]
    /\ UNCHANGED <<enumVars, table, owned, procState, termCode, killReq, exitCode, refA>>

\* a reference goes out of scope (ProcessRef has no Drop)
DropRef ==
    /\ Alive
    /\ \E slot \in Slots :
        /\ SlotVal(slot) # <<>>
        /\ SetSlot(slot, <<>>)
        /\ last' = [NoOp EXCEPT !.op = "drop_ref", !.raw = SlotVal(slot)[1].raw]
    /\ UNCHANGED <<enumVars, table, owned, procState, termCode, killReq, exitCode>>

\* whether the handle denotes the calling process, whatever its value
DenotesCurrentProcess(r) == ObjOf(r.raw) = "current"

\* self.handle() == ProcessRef::raw_current_handle()
IsCurrentRef(r) == r.raw = RawCurrentHandle

\* ProcessRef::is_current
IsCurrent ==
    /\ Alive
    /\ \E slot \in Slots :
        /\ SlotVal(slot) # <<>>
        /\ last' = [NoOp EXCEPT !.op = "is_current",
                                !.raw = SlotVal(slot)[1].raw,
                                !.flag = IsCurrentRef(SlotVal(slot)[1])]
    /\ UNCHANGED <<enumVars, table, owned, procState, termCode, killReq, exitCode,
                   refA, refB>>

\* equality of the whole borrowed handle, its lifetime scope included
RefEqWhole(a, b) == a = b

\* PartialEq::eq
RefEq(a, b) == a.raw = b.raw

\* Hasher::write of a handle value (a stand-in for the std hasher)
HashWrite(state, x) == (state * 31 + x + 1) % 257

\* Hash::hash: the hasher state after hashing the reference
RefHash(r, state) == HashWrite(state, r.raw)

\* the caller compares and hashes the two references it holds
CompareRefs ==
    /\ Alive
    /\ refA # <<>>
    /\ refB # <<>>
    /\ \E seed \in {0, 1} :
        last' = [NoOp EXCEPT !.op = "eq",
                             !.raw = refA[1].raw,
                             !.other = refB[1].raw,
                             !.flag = RefEq(refA[1], refB[1]),
                             !.hashA = RefHash(refA[1], seed),
                             !.hashB = RefHash(refB[1], seed)]
    /\ UNCHANGED <<enumVars, table, owned, procState, termCode, killReq, exitCode,
                   refA, refB>>

\* the returned Process takes over the viewed handle itself
OwnedViewedHandle(raw_handle, new_handle) == raw_handle

\* the handle the returned Process owns: Process::from_raw_handle(new_handle)
OwnedHandleOf(raw_handle, new_handle) == new_handle

\* the access the duplicate is given: DUPLICATE_SAME_ACCESS
DuplicateAccess(raw_handle) == AccessOf(raw_handle)

\* ProcessRef::promote_to_owned: one DuplicateHandle call
PromoteToOwned ==
    /\ Alive
    /\ \E slot \in Slots :
        /\ SlotVal(slot) # <<>>
        /\ LET raw_handle == SlotVal(slot)[1].raw IN
           \E result \in {0, 1} :
             IF result = 0
             THEN /\ last' = [NoOp EXCEPT !.op = "promote", !.raw = raw_handle,
                                          !.ok = FALSE, !.attempts = 1]
                  /\ UNCHANGED <<table, owned>>
             ELSE \E new_handle \in RealHandles :
                  /\ ~IsOpen(new_handle)
                  /\ table' = [table EXCEPT ![new_handle] =
                                  [obj |-> ObjOf(raw_handle),
                                   access |-> DuplicateAccess(raw_handle)]]
                  /\ owned' = owned \cup {OwnedHandleOf(raw_handle, new_handle)}
                  /\ last' = [NoOp EXCEPT !.op = "promote", !.raw = raw_handle,
                                          !.val = OwnedHandleOf(raw_handle, new_handle),
                                          !.attempts = 1]
    /\ UNCHANGED <<enumVars, procState, termCode, killReq, exitCode, refA, refB>>

\* a Process returned by promote_to_owned is dropped: it closes its handle.
\* No reference to that handle outlives it.
DropProcess ==
    /\ Alive
    /\ \E h \in owned :
        /\ \A r \in HeldRefs : r.raw # h
        /\ owned' = owned \ {h}
        /\ table' = [x \in RealHandles |-> IF x = h THEN ClosedEntry ELSE table[x]]
        /\ last' = [NoOp EXCEPT !.op = "drop_process", !.raw = h]
    /\ UNCHANGED <<enumVars, procState, termCode, killReq, exitCode, refA, refB>>

\* IsWow64Process of each process
Wow64Of(p) == p = "child"

\* ProcessRef::is_wow64
IsWow64 ==
    /\ Alive
    /\ \E slot \in Slots :
        /\ SlotVal(slot) # <<>>
        /\ LET raw_handle == SlotVal(slot)[1].raw IN
           \E result \in {0, 1} :
             last' = [NoOp EXCEPT !.op = "is_wow64", !.raw = raw_handle,
                                  !.ok = (result # 0),
                                  !.flag = (result # 0 /\ Wow64Of(ObjOf(raw_handle)))]
    /\ UNCHANGED <<enumVars, table, owned, procState, termCode, killReq, exitCode,
                   refA, refB>>

\* exit codes a caller asks for
ExitCodes == {1, 42}

\* the exit code kill asks for
KillExitCode == 1

\* the default exit code passed whatever the caller asked for
TerminateArgDefault(exit_code) == KillExitCode

\* the exit code passed to TerminateProcess
TerminateArg(exit_code) == exit_code

\* ProcessRef::kill_with_exit_code: TerminateProcess succeeds only on a
\* process that is running, and then only starts its termination
KillWithExitCodeOf(name, r, exit_code) ==
    LET p == ObjOf(HandleArg(r)) IN
    \E result \in {0, 1} :
        /\ result # 0 => procState[p] = "running"
        /\ last' = [NoOp EXCEPT !.op = name, !.raw = r.raw, !.ok = (result # 0),
                                !.val = exit_code]
        /\ IF result = 0
           THEN UNCHANGED <<procState, termCode, killReq>>
           ELSE /\ procState' = [procState EXCEPT ![p] = "terminating"]
                /\ termCode' = [termCode EXCEPT ![p] = <<TerminateArg(exit_code)>>]
                /\ killReq' = [killReq EXCEPT ![p] = <<exit_code>>]

KillWithExitCode ==
    /\ Alive
    /\ \E slot \in Slots, exit_code \in ExitCodes :
        /\ SlotVal(slot) # <<>>
        /\ KillWithExitCodeOf("kill_with_exit_code", SlotVal(slot)[1], exit_code)
    /\ UNCHANGED <<enumVars, table, owned, exitCode, refA, refB>>

\* ProcessRef::kill
Kill ==
    /\ Alive
    /\ \E slot \in Slots :
        /\ SlotVal(slot) # <<>>
        /\ KillWithExitCodeOf("kill", SlotVal(slot)[1], KillExitCode)
    /\ UNCHANGED <<enumVars, table, owned, exitCode, refA, refB>>

\* a process whose termination was requested finishes exiting
ProcessExits ==
    /\ \E p \in Procs :
        /\ procState[p] = "terminating"
        /\ procState' = [procState EXCEPT ![p] = "exited"]
        /\ exitCode' = [exitCode EXCEPT ![p] = termCode[p]]
    /\ UNCHANGED <<enumVars, table, owned, termCode, killReq, refA, refB, last>>

\* the child process returns from its main function
ChildExitsOnItsOwn ==
    /\ procState["child"] = "running"
    /\ procState' = [procState EXCEPT !["child"] = "exited"]
    /\ exitCode' = [exitCode EXCEPT !["child"] = <<0>>]
    /\ UNCHANGED <<enumVars, table, owned, termCode, killReq, refA, refB, last>>

HandleNext ==
    \/ BorrowFromHandle
    \/ RefOfProcess
    \/ Current
    \/ CopyRef
    \/ DropRef
    \/ IsCurrent
    \/ CompareRefs
    \/ PromoteToOwned
    \/ DropProcess
    \/ IsWow64
    \/ KillWithExitCode
    \/ Kill
    \/ ProcessExits
    \/ ChildExitsOnItsOwn

HandleSpec == Init /\ [][HandleNext]_vars

\* =============================================================== claims
\* get_module_handles has returned Ok(modules) (to its caller or to a lookup)
EnumReturned ==
    /\ pc \in {"scan", "done"}
    /\ calls > 0
    /\ ~callFailed
    /\ outcome # "panic"

\* the operation in progress is a plain get_module_handles that has ended
HandlesDone == op = "handles" /\ pc = "done"

\* a step of the operation in progress, not of the target
OpStep == loaded' = loaded

\* an enumeration call is issued by this step
CallIssued == calls' = calls + 1

C3_ErrorIffCallFailed ==
    /\ [](HandlesDone => (outcome = "err" <=> callFailed))
    /\ [](callFailed => (pc = "done" /\ outcome = "err" /\ modules = <<>>))
    /\ [][callFailed => ~CallIssued]_vars
    /\ [][(CallIssued /\ ~callFailed' /\ bytes_needed' > bufBytes')
            => (pc' = "loop" /\ outcome' = "none")]_vars

\* the failing call is a call of the growth loop
C3_Witness ==
    /\ HandlesDone
    /\ callFailed
    /\ calls >= 2
    /\ outcome = "err"

\* the length conversion of the growth loop failed
Aborted == outcome = "panic"

\* C4 as stated: with no failing call the operation ends with a result.
C4_Original ==
    (HandlesDone /\ ~callFailed) => outcome = "ok"

\* C4 (amended): an enumeration call that succeeds ends the enumeration
\* successfully exactly when its bytesNeeded is at most the byte size of the
\* buffer supplied to it; a finished get_module_handles has a result unless a
\* call failed or the grown buffer size no longer fits the length parameter
\* (abort); and every started operation eventually ends.
C4_StopsWhenFits ==
    /\ [][(CallIssued /\ ~callFailed')
            => (bytes_needed' <= bufBytes' <=> pc' \in {"scan", "done"})]_vars
    /\ [][(CallIssued /\ ~callFailed' /\ bytes_needed' <= bufBytes')
            => (op = "handles" => outcome' = "ok")]_vars
    /\ [](HandlesDone => (outcome = "ok" <=> (~callFailed /\ ~Aborted)))
    /\ [](pc \in {"first", "loop"} => <>(pc \in {"scan", "done"}))

C4_Witness ==
    /\ HandlesDone
    /\ outcome = "ok"
    /\ changed
    /\ calls >= 3

\* enumeration calls whose buffers, doubling from the stack buffer, still fit
\* the length parameter
RECURSIVE DoublingsWithin(_)
DoublingsWithin(size) ==
    IF size > DWordMax THEN 0 ELSE 1 + DoublingsWithin(2 * size)

CallCap == DoublingsWithin(HandleSize * StackLen)

\* C5 as stated: while every call reports more than the buffer just tried
\* the operation goes on; it ends only by a failing or a fitting call.
C5_Original ==
    [][(pc = "loop" /\ OpStep /\ pc' = "done") => (callFailed' \/ bytes_needed' <= bufBytes')]_vars

\* C5 (amended): the growth loop has no explicit iteration cap, but the
\* buffer at least doubles on every retry and its byte size must fit the
\* length parameter, so one operation issues at most CallCap enumeration
\* calls and then aborts; it cannot retry forever.
C5_RetriesBounded ==
    /\ calls <= CallCap
    /\ (pc = "loop" => calls < CallCap \/ ~TryIntoU32(GrowByteSize(bytes_needed, module_buf_byte_size)).ok)
    /\ (Aborted => (pc = "done" /\ bytes_needed > bufBytes))

C5_Witness ==
    /\ Aborted
    /\ calls = CallCap
    /\ changed

\* C6: the length parameter of every enumeration call is the byte size of
\* the buffer supplied; a byte size that does not fit the parameter aborts
\* the operation before the call is issued.
C6_LengthNeverTruncated ==
    /\ [](calls > 0 => (lenParam = bufBytes /\ lenParam <= DWordMax))
    /\ [][CallIssued => (module_buf_byte_size' <= DWordMax
                          /\ lenParam' = module_buf_byte_size')]_vars
    /\ [][(pc = "loop" /\ OpStep
             /\ GrowByteSize(bytes_needed, module_buf_byte_size) > DWordMax)
            => (Aborted' /\ ~CallIssued /\ modules' = <<>>)]_vars
    /\ [](Aborted => module_buf_byte_size > DWordMax)

C6_Witness ==
    /\ Aborted
    /\ module_buf_byte_size > DWordMax
    /\ lenParam = bufBytes
    /\ lenParam * 2 = module_buf_byte_size

\* a lookup has returned Ok(...)
LookupOk(kind) == op = kind /\ pc = "done" /\ outcome = "ok"

SetMin(S) == CHOOSE x \in S : \A y \in S : x <= y

\* the first handle of ms whose name (or path) is wanted up to ASCII case,
\* <<>> if there is none
FirstMatch(ms, NameOfHandle(_), wanted) ==
    LET hits == {i \in 1..Len(ms) : EqIgnoreAsciiCase(NameOfHandle(ms[i]), wanted)}
    IN  IF hits = {} THEN <<>> ELSE <<ms[SetMin(hits)]>>

\* the documented normalisation: ".dll" appended when the extension is omitted
AppendDllIfMissing(p) ==
    IF HasExtension(p) THEN p ELSE WithExtension(p, DllExt)

\* C7: find_module_by_name appends ".dll" to the name exactly when the name
\* has no extension and compares ignoring case: a successful lookup returns
\* the first enumerated module whose base name equals that name up to case
\* ("foo" and "FOO.DLL" both find foo.dll), and None when there is none.
C7_NameLookupAppendsDll ==
    LookupOk("by_name") =>
        found = FirstMatch(modules, BaseNameOf, AppendDllIfMissing(arg))

\* C8: find_module_by_path given the full path of a loaded module, in any
\* case and whatever its extension, returns that module, and returns None
\* for a path no loaded module has.
C8_PathLookupAnyExtension ==
    LookupOk("by_path") => found = FirstMatch(modules, PathOf, arg)

\* C9: a lookup returns the first enumerated handle, in enumeration order,
\* whose name or path matches the normalised target; it returns None only
\* when the enumeration succeeded, every module was queried successfully and
\* none matches.
C9_FirstMatchInOrder ==
    /\ (pc = "done" /\ outcome = "ok" /\ op = "by_name")
         => found = FirstMatch(modules, BaseNameOf, target)
    /\ (pc = "done" /\ outcome = "ok" /\ op = "by_path")
         => found = FirstMatch(modules, PathOf, target)
    /\ (pc = "done" /\ outcome = "ok" /\ op # "handles" /\ found = <<>>)
         => (EnumReturned /\ ~queryFailed /\ queried = modules)
    /\ (pc = "done" /\ outcome = "ok" /\ op # "handles" /\ found # <<>>)
         => (queried = SubSeq(modules, 1, Len(queried))
             /\ found = <<queried[Len(queried)]>>)

\* two enumerated modules match, the earlier one is returned
C9_Witness ==
    /\ LookupOk("by_name")
    /\ found # <<>>
    /\ \E i, j \in 1..Len(modules) :
        /\ i < j
        /\ found = <<modules[i]>>
        /\ EqIgnoreAsciiCase(BaseNameOf(modules[j]), target)

\* C10: when the enumeration of a lookup fails, or the query of a module
\* scanned before any match fails, the lookup returns that error: nothing
\* is returned, the failing module is the last one queried (it is not
\* skipped) and no module after it is queried.
C10_QueryFailureAborts ==
    /\ []((op # "handles" /\ callFailed)
            => (pc = "done" /\ outcome = "err" /\ found = <<>> /\ queried = <<>>))
    /\ []((pc = "done" /\ op \in {"by_name", "by_path"})
            => (outcome = "err" <=> (callFailed \/ queryFailed)))
    /\ [](queryFailed
            => /\ pc = "done"
               /\ outcome = "err"
               /\ found = <<>>
               /\ queried = SubSeq(modules, 1, Len(queried))
               /\ \A i \in 1..(Len(queried) - 1) :
                    ~EqIgnoreAsciiCase(QueryOf(queried[i]), target))
    /\ [][queryFailed => (queried' = queried \/ queried' = <<>>)]_vars

\* a module after the failing one would have matched
C10_Witness ==
    /\ queryFailed
    /\ op = "by_path"
    /\ \E j \in (Len(queried) + 1)..Len(modules) :
        EqIgnoreAsciiCase(PathOf(modules[j]), target)

\* --------------------------------------------------------------- C11
KillOps == {"kill", "kill_with_exit_code"}

\* this step is a kill call the OS accepted for process p
KillAccepted(p) == killReq'[p] # killReq[p]

\* this step is a kill call that returned an error
KillRefused == last' # last /\ last'.op \in KillOps /\ ~last'.ok

\* C11: kill asks for exit code 1 and kill_with_exit_code(c) for c: once a
\* process whose termination such a call requested has exited, its exit
\* code is the one asked for; when the call returns Ok the process is only
\* terminating, not yet exited; a failing TerminateProcess is returned as an
\* error and changes nothing.
C11_KillExitCode ==
    /\ [](\A p \in Procs :
            (procState[p] = "exited" /\ killReq[p] # <<>>) => exitCode[p] = killReq[p])
    /\ [](last.op = "kill" => last.val = 1)
    /\ [][\A p \in Procs : KillAccepted(p) =>
            /\ last'.op \in KillOps
            /\ last'.ok
            /\ ObjOf(last'.raw) = p
            /\ killReq'[p] = <<last'.val>>
            /\ termCode'[p] = killReq'[p]
            /\ procState[p] = "running"
            /\ procState'[p] = "terminating"
            /\ exitCode' = exitCode]_vars
    /\ [][(last' # last /\ last'.op \in KillOps /\ last'.ok)
            => KillAccepted(ObjOf(last'.raw))]_vars
    /\ [][KillRefused =>
            (procState' = procState /\ termCode' = termCode /\ killReq' = killReq
             /\ exitCode' = exitCode)]_vars

\* the child was asked to exit with 42 and has exited with 42
C11_Witness ==
    /\ procState["child"] = "exited"
    /\ killReq["child"] = <<42>>
    /\ exitCode["child"] = <<42>>

\* --------------------------------------------------------------- C12
\* handles that were open before any ProcessRef call and that no Process owns
ViewedFromOutside == {h \in RealHandles : InitTable[h] # ClosedEntry}

\* this step is a promote_to_owned call that returned the given result
PromoteReturned(ok) == last' # last /\ last'.op = "promote" /\ last'.ok = ok

RefsAtHand == HeldRefs \cup {CurrentRef}

HashSeeds == {0, 1}

\* C13: two ProcessRef values are equal if and only if their raw handle
\* values are equal, equal references hash equally from every hasher state
\* (the hash depends on the raw handle value only), and equality is
\* reflexive, symmetric and transitive.
C13_EqByRawHandle ==
    /\ last.op = "eq" =>
         /\ last.flag <=> (last.raw = last.other)
         /\ last.flag => last.hashA = last.hashB
    /\ \A a \in RefsAtHand, b \in RefsAtHand :
         /\ RefEq(a, a)
         /\ RefEq(a, b) <=> (a.raw = b.raw)
         /\ RefEq(a, b) <=> RefEq(b, a)
         /\ RefEq(a, b) => \A seed \in HashSeeds : RefHash(a, seed) = RefHash(b, seed)
         /\ \A c \in RefsAtHand : (RefEq(a, b) /\ RefEq(b, c)) => RefEq(a, c)

\* two references that differ as values but carry the same raw handle were
\* compared equal and hashed equally
C13_Witness ==
    /\ last.op = "eq"
    /\ last.flag
    /\ last.hashA = last.hashB
    /\ refA # refB
    /\ refA # <<>> /\ refB # <<>>
    /\ refA[1].raw = refB[1].raw

RetryStep == pc = "loop" /\ OpStep

\* C15: every iteration of the growth loop sets the buffer byte size to
\* max(bytes_needed of the previous call, 2 * previous byte size): the size
\* strictly increases and at least doubles, it is at least the bytes_needed
\* the previous call reported, the heap buffer is resized to that size (so
\* the first heap buffer holds at least twice the stack buffer's entries and
\* no heap buffer is empty), and the call that follows is given that size.
C15_GrowthSize ==
    [][RetryStep =>
        /\ module_buf_byte_size' = Max2(bytes_needed, 2 * module_buf_byte_size)
        /\ module_buf_byte_size' > module_buf_byte_size
        /\ module_buf_byte_size' >= 2 * module_buf_byte_size
        /\ module_buf_byte_size' >= bytes_needed
        /\ Len(module_buf_vec') = module_buf_byte_size' \div HandleSize
        /\ Len(module_buf_vec') >= 2 * StackLen
        /\ Len(module_buf_vec') > 0
        /\ CallIssued => (bufBytes' = module_buf_byte_size'
                          /\ lenParam' = module_buf_byte_size')]_vars

\* the first retry used the size the first call reported, more than twice
\* the stack buffer
C15_Witness ==
    /\ calls = 2
    /\ module_buf_byte_size > 2 * HandleSize * StackLen
    /\ bufBytes = module_buf_byte_size
    /\ Len(module_buf_vec) * HandleSize = module_buf_byte_size

\* --------------------------------------------------------------- C16
\* byte capacity of the stack buffer
StackBytes == HandleSize * StackLen

\* get_module_handles has returned or aborted
EnumOver == pc \in {"scan", "done"}

\* this step is the first enumeration call succeeding
FirstCallSucceeded == pc = "first" /\ OpStep /\ CallIssued /\ ~callFailed'

\* C16: get_module_handles issues as few enumeration calls as the target
\* allows.  When the first call reports bytes_needed within the stack
\* buffer's byte capacity that call is the only one and no heap buffer is
\* made; when the module count exceeds the stack buffer and has not grown by
\* the time of the second call, the second call is the last; a call after
\* the second is issued only when the list seen by the previous call had
\* grown past the buffer tried in that call; with a target that does not
\* change, one call is issued when the list fits the stack buffer and two
\* otherwise; once the enumeration is over no call is issued.
C16_MinimumCalls ==
    /\ [][(FirstCallSucceeded /\ bytes_needed' <= StackBytes) =>
            /\ calls' = 1
            /\ EnumOver'
            /\ module_buf_vec' = <<>>]_vars
    /\ [][(FirstCallSucceeded /\ bytes_needed' > StackBytes) => pc' = "loop"]_vars
    /\ [][(RetryStep /\ calls = 1 /\ Len(loaded) * HandleSize <= bytes_needed) =>
            /\ calls' = 2
            /\ EnumOver']_vars
    /\ [][(RetryStep /\ CallIssued) =>
            /\ bytes_needed > bufBytes
            /\ bytes_needed = Len(snap) * HandleSize
            /\ calls >= 2 => (changed /\ Len(snap) > lenParam \div HandleSize)]_vars
    /\ [][(EnumOver /\ EnumOver') => calls' = calls]_vars
    /\ []((EnumOver /\ ~changed /\ ~callFailed /\ outcome # "panic") =>
            /\ calls = (IF Len(snap) <= StackLen THEN 1 ELSE 2)
            /\ calls = 1 => module_buf_vec = <<>>)

\* a third call was issued, after the module list had outgrown the heap
\* buffer of the second call
C16_Witness ==
    /\ calls = 3
    /\ changed
    /\ ~callFailed
    /\ EnumOver
    /\ Len(snap) * HandleSize <= bufBytes

\* --------------------------------------------------------------- C17
Lookups == {"by_name", "by_path"}

\* C17: every module view a lookup constructs, the returned one included,
\* pairs its module handle with the reference the lookup was invoked on;
\* the handle is the element, at the position scanned, of the list that the
\* last enumeration call of this same lookup obtained, and every
\* enumeration call of this lookup was made against the handle of that same
\* reference.
C17_ViewsPairSelf ==
    /\ views # <<>> =>
         /\ op \in Lookups
         /\ pc \in {"scan", "done"}
         /\ calls >= 1
         /\ Len(views) <= Len(modules)
         /\ Len(modules) <= Len(snap)
    /\ \A i \in 1..Len(views) :
         /\ views[i].process = self[1]
         /\ views[i].handle = modules[i]
         /\ views[i].handle = snap[i]
         /\ enumProc = {HandleArg(views[i].process)}
    /\ (pc = "done" /\ found # <<>>) =>
         /\ views # <<>>
         /\ views[Len(views)] = NewProcessModule(found[1], self[1])
         /\ views[Len(views)].process = self[1]
         /\ views[Len(views)].handle = found[1]

\* a lookup invoked on a reference to another process returned the second
\* module it queried, from the list its second enumeration call obtained
C17_Witness ==
    /\ pc = "done"
    /\ op \in Lookups
    /\ found # <<>>
    /\ Len(views) >= 2
    /\ calls >= 2
    /\ self[1] # CurrentRef
    /\ views[Len(views)].process = self[1]
    /\ views[Len(views)].handle = found[1]

====
